---- MODULE Spec2Model ----
(***************************************************************************)
(* Model of the annotation pipeline of SentimentInsightUAM_SA:             *)
(*   - the keyword category scorer (src/ml/categorizer.py),                *)
(*   - the sentiment classifier interface (src/ml/__init__.py),            *)
(*   - the MongoDB repository (src/db/repository.py),                      *)
(*   - the batch orchestration (src/ml/processor.py).                      *)
(*                                                                         *)
(* Texts are TLA+ strings; `in`, lower() and slicing are computed          *)
(* character by character.  Floats are modelled as exact rationals         *)
(* [num, den]: for the hit counts that fit in a lexicon (< 2^20) the       *)
(* IEEE-754 quotient pos/total compares with the literals 0.6 and 0.4      *)
(* exactly as the rational does, because division is correctly rounded     *)
(* and monotone and 3/5, 2/5 round to the literals themselves.             *)
(***************************************************************************)
EXTENDS Integers, Sequences, FiniteSets, TLC

(***************************************************************************)
(* OpinionCategorizer.KEYWORDS, in declaration order (duplicates kept).    *)
(***************************************************************************)
KEYWORDS ==
  [ calidad_didactica |->
      [ positivo |-> <<
          "explica bien",
          "explica muy bien",
          "explica excelente",
          "explica claro",
          "explica con claridad",
          "explica de forma clara",
          "claro para explicar",
          "clases claras",
          "clase clara",
          "muy claro",
          "super claro",
          "todo claro",
          "deja todo claro",
          "no deja dudas (positiva)",
          "domina el tema",
          "domina la materia",
          "domina bastante",
          "se nota que sabe",
          "se nota que domina",
          "gran dominio",
          "mucho conocimiento",
          "conocimiento profundo",
          "muy preparado",
          "bien preparado",
          "super preparado",
          "profesor preparado",
          "profesora preparada",
          "preparado en la materia",
          "sabe mucho",
          "sabe bastante",
          "sabe lo que hace",
          "controla el tema",
          "enseña bien",
          "didáctico",
          "muy didáctico",
          "didactico",
          "buen profesor",
          "buena profesora",
          "excelente profesor",
          "excelente profesora",
          "excelente docente",
          "muy buen maestro",
          "muy buena maestra",
          "usa buenos ejemplos",
          "pone buenos ejemplos",
          "ejemplos claros",
          "ejemplos sencillos",
          "ejemplos prácticos",
          "usa ejercicios",
          "resuelve ejercicios",
          "explica paso a paso",
          "va paso a paso",
          "clases bien estructuradas",
          "clase bien estructurada",
          "organizado en clase",
          "organizada en clase",
          "sigue un orden",
          "buen manejo del tiempo",
          "buen ritmo de clase",
          "ritmo adecuado",
          "aprendí mucho",
          "aprendi mucho",
          "aprendí bastante",
          "aprendi bastante",
          "aprendes demasiado",
          "aprendí con él",
          "aprendi con el",
          "aprendí con ella",
          "se aprende bien",
          "se aprende mucho",
          "entendí todo",
          "entiendes todo",
          "se entiende todo",
          "mejoré bastante",
          "mejoré mucho",
          "muy profesional",
          "profesional en su trabajo",
          "responsable con la clase",
          "puntual con la clase",
          "llega puntual"
        >>,
        negativo |-> <<
          "no explica",
          "no sabe explicar",
          "explica mal",
          "explica muy mal",
          "no explica bien",
          "explica rápido y mal",
          "explica todo rápido",
          "va muy rápido",
          "va demasiado rápido",
          "explica encima del pizarrón",
          "solo lee diapositivas",
          "solo lee las diapositivas",
          "solo dicta",
          "solo escribe",
          "confuso",
          "muy confuso",
          "clases confusas",
          "desorganizado",
          "desorganizada",
          "desordenado",
          "desordenada",
          "mal profesor",
          "mala profesora",
          "pésimo profesor",
          "pesimo profesor",
          "pésima profesora",
          "pesima profesora",
          "no enseña",
          "no se entiende",
          "no se le entiende",
          "no se entiende nada",
          "no se entiende lo que dice",
          "te pierdes en la clase",
          "uno se pierde",
          "me perdí en la clase",
          "no domina el tema",
          "no domina la materia",
          "se equivoca mucho",
          "se la pasa corrigiendo",
          "aburrido",
          "aburrida",
          "muy aburrido",
          "muy aburrida",
          "monótono",
          "monotono",
          "monótona",
          "monotona",
          "clases pesadas",
          "clase pesada",
          "improvisado",
          "improvisada",
          "improvisa la clase",
          "no prepara la clase",
          "llega sin preparar",
          "no sabe la materia",
          "no maneja el tema",
          "salta muchos temas",
          "se salta temas",
          "mezcla temas",
          "no sigue el temario",
          "no sigue el programa",
          "no respeta el programa"
        >> ],
    metodo_evaluacion |->
      [ positivo |-> <<
          "justo",
          "muy justo",
          "justa",
          "muy justa",
          "bastante justo",
          "califica justo",
          "califica justo",
          "calificación justa",
          "calificacion justa",
          "exámenes justos",
          "examenes justos",
          "evalúa justo",
          "evalua justo",
          "evalúa de forma justa",
          "evalua de forma justa",
          "fair",
          "razonable",
          "muy razonable",
          "equilibrado",
          "equilibrada",
          "bien evaluado",
          "bien evaluada",
          "objetivo",
          "objetiva",
          "criterios claros",
          "criterios de evaluación claros",
          "criterios de evaluacion claros",
          "rubrica clara",
          "rúbrica clara",
          "explica cómo evalúa",
          "explica como evalua",
          "explica la forma de evaluar",
          "deja claro cómo califica",
          "deja claro como califica",
          "todo bien especificado",
          "publica rubricas",
          "publica rúbricas",
          "da oportunidad",
          "da oportunidades",
          "deja recuperar",
          "deja extraordinario",
          "permite extraordinarios",
          "acepta trabajos extra",
          "da puntos extra",
          "sube puntos",
          "sube la calificación",
          "sube la calificacion",
          "permite reposición",
          "permite reposicion",
          "mucha práctica pero justo",
          "mucha practica pero justo",
          "tareas razonables",
          "poca tarea pero efectiva",
          "proyectos razonables",
          "exámenes acordes",
          "examenes acordes",
          "evalúa lo que ve en clase",
          "evalua lo que ve en clase",
          "solo toma lo visto en clase"
        >>,
        negativo |-> <<
          "difícil",
          "dificil",
          "muy difícil",
          "muy dificil",
          "exigente",
          "muy exigente",
          "demasiado exigente",
          "exámenes imposibles",
          "examenes imposibles",
          "exámenes muy difíciles",
          "examenes muy dificiles",
          "preguntas rebuscadas",
          "preguntas trampas",
          "preguntas trampa",
          "reprobar",
          "reprobé a muchos",
          "reprobe a muchos",
          "reprobados masivos",
          "reprobados masivos",
          "injusto",
          "injusta",
          "muy injusto",
          "muy injusta",
          "evalúa mal",
          "evalua mal",
          "califica mal",
          "califica bajo",
          "califica muy bajo",
          "calificación arbitraria",
          "calificacion arbitraria",
          "criterios arbitrarios",
          "criterios poco claros",
          "no explica cómo evalúa",
          "no explica como evalua",
          "no explica los criterios",
          "no deja claro cómo califica",
          "no deja claro como califica",
          "subjetivo",
          "subjetiva",
          "muy subjetivo",
          "muy subjetiva",
          "caprichoso",
          "caprichosa",
          "mucha tarea",
          "demasiada tarea",
          "exceso de tarea",
          "carga excesiva",
          "carga de trabajo excesiva",
          "muchos proyectos",
          "proyectos innecesarios",
          "muchos trabajos",
          "trabajos innecesarios",
          "tareas sin sentido",
          "tarea sin sentido",
          "no evalúa lo que ve en clase",
          "no evalua lo que ve en clase",
          "exámenes de cosas que no vimos",
          "examenes de cosas que no vimos",
          "pregunta cosas que no explicó",
          "pregunta cosas que no explico",
          "toma temas que no vimos",
          "no da retroalimentación",
          "no da retroalimentacion",
          "no explica las calificaciones",
          "no entrega resultados a tiempo",
          "se tarda en calificar",
          "tarda mucho en calificar"
        >> ],
    empatia |->
      [ positivo |-> <<
          "comprensivo",
          "comprensiva",
          "muy comprensivo",
          "muy comprensiva",
          "accesible",
          "muy accesible",
          "amable",
          "muy amable",
          "buena onda",
          "muy buena onda",
          "relajado",
          "relajada",
          "alivianado",
          "alivianada",
          "buena persona",
          "excelente persona",
          "humano",
          "muy humano",
          "empático",
          "empática",
          "empatico",
          "empatica",
          "considerado",
          "considerada",
          "respetuoso",
          "respetuosa",
          "trato amable",
          "trato humano",
          "ayuda",
          "siempre ayuda",
          "ayuda mucho",
          "apoya a los alumnos",
          "apoya a sus alumnos",
          "apoya bastante",
          "apoya cuando puede",
          "te apoya",
          "da seguimiento",
          "se preocupa por sus alumnos",
          "se preocupa por los alumnos",
          "se interesa por el alumno",
          "se interesa por los estudiantes",
          "resuelve dudas",
          "resuelve todas las dudas",
          "respuesta rápida",
          "responde rápido",
          "responde rapido",
          "responde correos",
          "responde mensajes",
          "flexible",
          "muy flexible",
          "flexible con entregas",
          "flexible con fechas",
          "da chance",
          "da chance con tareas",
          "da prórrogas",
          "da prorrogas",
          "da oportunidad de entregar",
          "entendió mi situación",
          "entendio mi situacion",
          "entiende las situaciones",
          "entiende que trabajamos",
          "entiende que trabajas",
          "disponible",
          "muy disponible",
          "atiende en asesorías",
          "atiende en asesorias",
          "da asesorías",
          "da asesorias",
          "horario de asesoría",
          "horario de asesoria",
          "responde en clase",
          "escucha al alumno",
          "escucha a los alumnos"
        >>,
        negativo |-> <<
          "grosero",
          "grosera",
          "muy grosero",
          "muy grosera",
          "déspota",
          "despota",
          "déspota con los alumnos",
          "despota con los alumnos",
          "mal trato",
          "maltrato",
          "trata mal",
          "trata muy mal",
          "antipático",
          "antipatica",
          "antipático",
          "antipática",
          "prepotente",
          "muy prepotente",
          "soberbio",
          "soberbia",
          "arrogante",
          "arrogante con los alumnos",
          "pesado",
          "pesada",
          "muy pesado",
          "muy pesada",
          "mamón con los alumnos",
          "mamona con los alumnos",
          "no ayuda",
          "nunca ayuda",
          "no apoya",
          "no apoya a los alumnos",
          "no resuelve dudas",
          "no responde dudas",
          "ignora las dudas",
          "ignora a los alumnos",
          "no responde correos",
          "no responde mensajes",
          "no contesta correos",
          "no contesta mensajes",
          "inflexible",
          "muy inflexible",
          "no da prórrogas",
          "no da prorrogas",
          "no da oportunidad",
          "no da segundas oportunidades",
          "no entiende las situaciones",
          "no entiende que trabajamos",
          "no entiende que trabajas",
          "no le importa el alumno",
          "no le importan los alumnos",
          "le da igual el alumno",
          "le da igual la clase",
          "inaccesible",
          "muy inaccesible",
          "casi no se le encuentra",
          "no está disponible",
          "no esta disponible",
          "no atiende asesorías",
          "no atiende asesorias",
          "no escucha al alumno",
          "no escucha a los alumnos",
          "se burla de los alumnos",
          "hace comentarios hirientes"
        >> ] ]

Categorias == <<"calidad_didactica", "metodo_evaluacion", "empatia">>

Min(a, b) == IF a <= b THEN a ELSE b

Rango(s) == { s[k] : k \in DOMAIN s }

(***************************************************************************)
(* Python primitives used by the scorer.                                   *)
(***************************************************************************)

\* The case mapping of str.lower() for the letters of Spanish text.
UpperToLower ==
  [ c \in { "A", "B", "C", "D", "E", "F", "G", "H", "I", "J", "K", "L", "M",
            "N", "O", "P", "Q", "R", "S", "T", "U", "V", "W", "X", "Y", "Z",
            "Á", "É", "Í", "Ó", "Ú", "Ü", "Ñ" } |->
      CASE c = "A" -> "a" [] c = "B" -> "b" [] c = "C" -> "c" [] c = "D" -> "d"
        [] c = "E" -> "e" [] c = "F" -> "f" [] c = "G" -> "g" [] c = "H" -> "h"
        [] c = "I" -> "i" [] c = "J" -> "j" [] c = "K" -> "k" [] c = "L" -> "l"
        [] c = "M" -> "m" [] c = "N" -> "n" [] c = "O" -> "o" [] c = "P" -> "p"
        [] c = "Q" -> "q" [] c = "R" -> "r" [] c = "S" -> "s" [] c = "T" -> "t"
        [] c = "U" -> "u" [] c = "V" -> "v" [] c = "W" -> "w" [] c = "X" -> "x"
        [] c = "Y" -> "y" [] c = "Z" -> "z" [] c = "Á" -> "á" [] c = "É" -> "é"
        [] c = "Í" -> "í" [] c = "Ó" -> "ó" [] c = "Ú" -> "ú" [] c = "Ü" -> "ü"
        [] c = "Ñ" -> "ñ" ]

\* A text left as it is: what the scorer would see without lower().
lower_identidad(s) == s

\* texto.lower()
RECURSIVE lower(_)
lower(s) ==
  IF s = "" THEN ""
  ELSE LET c == SubSeq(s, 1, 1)
       IN (IF c \in DOMAIN UpperToLower THEN UpperToLower[c] ELSE c)
            \o lower(SubSeq(s, 2, Len(s)))

\* A matcher that skips an occurrence preceded by the negation "no ".
Contiene_negacion(palabra, texto_lower) ==
  \E i \in 1..(Len(texto_lower) - Len(palabra) + 1) :
     /\ SubSeq(texto_lower, i, i + Len(palabra) - 1) = palabra
     /\ ~ (i > 3 /\ SubSeq(texto_lower, i - 3, i - 1) = "no ")

\* `palabra in texto_lower`: substring test at every offset, no word
\* boundary and no negation handling.
Contiene(palabra, texto_lower) ==
  \E i \in 1..(Len(texto_lower) - Len(palabra) + 1) :
     SubSeq(texto_lower, i, i + Len(palabra) - 1) = palabra

\* A scan that walks the lexicon list backwards.
RECURSIVE Encontradas_inverso(_, _)
Encontradas_inverso(lista, texto_lower) ==
  IF lista = << >> THEN << >>
  ELSE Encontradas_inverso(Tail(lista), texto_lower)
         \o (IF Contiene(Head(lista), texto_lower) THEN <<Head(lista)>> ELSE << >>)

\* for palabra in lista: if palabra in texto_lower: encontradas.append(palabra)
Encontradas(lista, texto_lower) ==
  SelectSeq(lista, LAMBDA palabra : Contiene(palabra, texto_lower))

MaxPalabras == 5

\* A slice that keeps the whole list.
Primeras_todas(palabras) == palabras

\* palabras[:5]
Primeras(palabras) == SubSeq(palabras, 1, Min(MaxPalabras, Len(palabras)))

(***************************************************************************)
(* OpinionCategorizer._calcular_score_categoria                            *)
(***************************************************************************)

\* score_positivo >= 0.6
EsPositivo_ge(pos, total) == 10 * pos >= 6 * total

\* score_positivo > 0.6, with score_positivo = pos / total
EsPositivo(pos, total) == 10 * pos > 6 * total

\* score_positivo <= 0.4
EsNegativo_le(pos, total) == 10 * pos <= 4 * total

\* score_positivo < 0.4
EsNegativo(pos, total) == 10 * pos < 4 * total

\* A negative confidence that reports the score itself.
ConfianzaNegativa_score(pos, total) == [num |-> pos, den |-> total]

\* confianza = 1 - score_positivo
ConfianzaNegativa(pos, total) == [num |-> total - pos, den |-> total]

\* A zero-hit verdict that reports no confidence at all.
SinCoincidencias_cero ==
  [valoracion |-> "neutral", confianza |-> [num |-> 0, den |-> 1],
   palabras |-> << >>]

\* return "neutral", 0.5, []
SinCoincidencias ==
  [valoracion |-> "neutral", confianza |-> [num |-> 1, den |-> 2],
   palabras |-> << >>]

\* Variant: a neutral verdict that reports the score as its confidence.
Clasificar_neutral_score(positivas_encontradas, negativas_encontradas) ==
  LET pos == Len(positivas_encontradas)
      total_encontradas == pos + Len(negativas_encontradas)
  IN IF total_encontradas = 0
     THEN SinCoincidencias
     ELSE IF EsPositivo(pos, total_encontradas)
          THEN [valoracion |-> "positivo",
                confianza |-> [num |-> pos, den |-> total_encontradas],
                palabras |-> Primeras(positivas_encontradas)]
          ELSE IF EsNegativo(pos, total_encontradas)
          THEN [valoracion |-> "negativo",
                confianza |-> ConfianzaNegativa(pos, total_encontradas),
                palabras |-> Primeras(negativas_encontradas)]
          ELSE [valoracion |-> "neutral",
                confianza |-> [num |-> pos, den |-> total_encontradas],
                palabras |-> Primeras(positivas_encontradas
                                        \o negativas_encontradas)]

\* Steps 3 to 5: the verdict computed from the two hit lists.
Clasificar(positivas_encontradas, negativas_encontradas) ==
  LET pos == Len(positivas_encontradas)
      total_encontradas == pos + Len(negativas_encontradas)
  IN IF total_encontradas = 0
     THEN SinCoincidencias
     ELSE IF EsPositivo(pos, total_encontradas)
          THEN [valoracion |-> "positivo",
                confianza |-> [num |-> pos, den |-> total_encontradas],
                palabras |-> Primeras(positivas_encontradas)]
          ELSE IF EsNegativo(pos, total_encontradas)
          THEN [valoracion |-> "negativo",
                confianza |-> ConfianzaNegativa(pos, total_encontradas),
                palabras |-> Primeras(negativas_encontradas)]
          ELSE [valoracion |-> "neutral",
                confianza |-> [num |-> 1, den |-> 2],
                palabras |-> Primeras(positivas_encontradas
                                        \o negativas_encontradas)]

\* The locals of one call at its return: the lowered text, the two hit
\* lists and the returned tuple.
calcular_score_locales(t, categoria) ==
  LET texto_lower == lower(t)
      positivas_encontradas ==
        Encontradas(KEYWORDS[categoria].positivo, texto_lower)
      negativas_encontradas ==
        Encontradas(KEYWORDS[categoria].negativo, texto_lower)
  IN [texto_lower |-> texto_lower,
      positivas_encontradas |-> positivas_encontradas,
      negativas_encontradas |-> negativas_encontradas,
      retorno |-> Clasificar(positivas_encontradas, negativas_encontradas)]

calcular_score_categoria(t, categoria) ==
  calcular_score_locales(t, categoria).retorno

(***************************************************************************)
(* Inputs of the scorer: texts assembled from fragments of opinions.       *)
(***************************************************************************)
MaxFrags == 3

Fragmentos ==
  { "Explica BIEN ", "Muy didáctico, buen profesor ",
    "Grosero, injusto, muy aburrido ", "Sabe mucho, ayuda, confuso ",
    "Califica justo, muy justo ", "muy exigente, no " }

RECURSIVE TextosDe(_)
TextosDe(k) ==
  IF k = 0 THEN { "" }
  ELSE LET prev == TextosDe(k - 1)
       IN prev \cup { t \o f : t \in prev, f \in Fragmentos }

TextosEntrada == TextosDe(MaxFrags)

(***************************************************************************)
(* OpinionCategorizer.categorizar / categorizar_batch                      *)
(***************************************************************************)

\* round(confianza, 3), in thousandths.  No hit count below 16 yields a
\* quotient that lies exactly between two thousandths, so rounding to the
\* nearest thousandth is unambiguous.
Round3(c) == (2000 * c.num + c.den) \div (2 * c.den)

\* One dimension of CategorizacionResult.
Veredicto(t, categoria) ==
  LET r == calcular_score_categoria(t, categoria)
  IN [valoracion |-> r.valoracion,
      confianza |-> Round3(r.confianza),
      palabras_clave |-> r.palabras]

categorizar(t) ==
  [calidad_didactica |-> Veredicto(t, "calidad_didactica"),
   metodo_evaluacion |-> Veredicto(t, "metodo_evaluacion"),
   empatia |-> Veredicto(t, "empatia")]

(***************************************************************************)
(* The document store: comments of the opinions, in insertion order.       *)
(***************************************************************************)
NumOpiniones == 3

Comentarios ==
  <<"explica bien y domina el tema", "muy difícil e injusto", "clase normal">>

Ids == 1..NumOpiniones

ComentarioDe(id) == Comentarios[((id - 1) % Len(Comentarios)) + 1]

\* categorizar is pure: its value on each stored comment, computed once.
TablaCategorizar == [t \in Rango(Comentarios) |-> categorizar(t)]

categorizar_batch(textos) ==
  [j \in DOMAIN textos |-> TablaCategorizar[textos[j]]]

VersionCategorizador == "keyword-based-v1.0"

(***************************************************************************)
(* SentimentAnalyzer.analizar_batch                                        *)
(***************************************************************************)
MaxTexto == 512

\* t[:512]
Truncar(t) == IF Len(t) <= MaxTexto THEN t ELSE SubSeq(t, 1, MaxTexto)

\* label_map.get(label, "neutral")
LabelMap(label) ==
  CASE label \in {"POSITIVE", "POS", "LABEL_2"} -> "positivo"
    [] label \in {"NEGATIVE", "NEG", "LABEL_0"} -> "negativo"
    [] label \in {"NEUTRAL", "NEU", "LABEL_1"} -> "neutral"
    [] OTHER -> "neutral"

\* The transformers pipeline is a function from (truncated) text to the
\* winning label and its score, in thousandths.  Two such functions.
Modelos ==
  { [t \in Rango(Comentarios) |->
       CASE t = Comentarios[1] -> [label |-> "POS", score |-> 900]
         [] t = Comentarios[2] -> [label |-> "NEG", score |-> 850]
         [] OTHER -> [label |-> "NEU", score |-> 500]],
    [t \in Rango(Comentarios) |->
       CASE t = Comentarios[1] -> [label |-> "LABEL_0", score |-> 600]
         [] t = Comentarios[2] -> [label |-> "POSITIVE", score |-> 990]
         [] OTHER -> [label |-> "MIXED", score |-> 400]] }

\* pesos: the winner keeps its score, the others share the rest; then
\* every weight is divided by the total (thousandths).
Pesos(clasificacion, confianza) ==
  LET crudo == [c \in {"positivo", "neutral", "negativo"} |->
                  IF c = clasificacion THEN 2 * confianza
                  ELSE 1000 - confianza]
      total == crudo["positivo"] + crudo["neutral"] + crudo["negativo"]
  IN [c \in {"positivo", "neutral", "negativo"} |->
        (1000 * crudo[c]) \div total]

\* The body of the loop over resultados_raw.
SentimentResult(resultado) ==
  LET clasificacion == LabelMap(resultado.label)
      confianza == resultado.score
  IN [clasificacion |-> clasificacion,
      pesos |-> Pesos(clasificacion, confianza),
      confianza |-> confianza]

\* The value analizar_batch returns when the pipeline call succeeds.
analizar_batch(textos, modelo) ==
  [j \in DOMAIN textos |-> SentimentResult(modelo[Truncar(textos[j])])]

\* The transformers pipeline works through the texts in internal batches
\* of batch_size texts.
batch_size == 1

NumLotes(n) == (n + batch_size - 1) \div batch_size

LoteDe(j) == ((j - 1) \div batch_size) + 1

VersionModelo == "pysentimiento/robertuito-sentiment-analysis-v1.0"

(***************************************************************************)
(* Repository (MongoDB collection db.opiniones)                            *)
(***************************************************************************)
SinAnalisis == [analizado |-> FALSE]

\* An annotation left by an earlier run.
SentimientoPrevio ==
  [analizado |-> TRUE, clasificacion |-> "neutral",
   pesos |-> [positivo |-> 250, neutral |-> 500, negativo |-> 250],
   confianza |-> 500, modelo_version |-> "previo"]

CategorizacionPrevia ==
  [analizado |-> TRUE,
   calidad_didactica |-> [valoracion |-> "neutral", confianza |-> 500,
                          palabras_clave |-> << >>],
   metodo_evaluacion |-> [valoracion |-> "neutral", confianza |-> 500,
                          palabras_clave |-> << >>],
   empatia |-> [valoracion |-> "neutral", confianza |-> 500,
                palabras_clave |-> << >>],
   modelo_version |-> "previo"]

Documento(id, analizada) ==
  [existe |-> TRUE, comentario |-> ComentarioDe(id),
   sentimiento_general |->
     IF analizada THEN SentimientoPrevio ELSE SinAnalisis,
   categorizacion |->
     IF analizada THEN CategorizacionPrevia ELSE SinAnalisis]

\* find(filtro): the matching documents in natural (insertion) order;
\* filtro[i] tells whether the document with _id i matches the query.
Encontrar(col, filtro) ==
  LET ids == SelectSeq([i \in Ids |-> i],
                       LAMBDA i : col[i].existe /\ filtro[i])
  IN [j \in DOMAIN ids |->
        [_id |-> ids[j],
         comentario |-> col[ids[j]].comentario,
         sentimiento_general |-> col[ids[j]].sentimiento_general,
         categorizacion |-> col[ids[j]].categorizacion]]

\* .skip(skip).limit(limit) and to_list(length=limit), for limit > 0.
SkipLimit_sin_limite(lista, skip, limit) ==
  SubSeq(lista, skip + 1, Len(lista))

SkipLimit(lista, skip, limit) ==
  SubSeq(lista, skip + 1, Min(Len(lista), skip + limit))

\* Variant: the query without its filter on the analysed flag.
obtener_opiniones_pendientes_sentimiento_sin_filtro(col, limit, skip) ==
  SkipLimit(Encontrar(col, [i \in Ids |-> TRUE]), skip, limit)

obtener_opiniones_pendientes_sentimiento(col, limit, skip) ==
  SkipLimit(Encontrar(col,
                      [i \in Ids |->
                         col[i].sentimiento_general.analizado = FALSE]),
            skip, limit)

obtener_todas_las_opiniones(col, limit, skip) ==
  SkipLimit(Encontrar(col, [i \in Ids |-> TRUE]), skip, limit)

\* The profesor_id and curso fields of the stored documents.
ProfesorDe(id) == IF id <= 2 THEN 1 ELSE 2

CursoDe(id) == IF id % 2 = 1 THEN "Bases de Datos" ELSE "Calculo"

Profesores == {1, 2}

PatronesCurso == {"datos", "CALCULO"}

\* {"curso": {"$regex": curso, "$options": "i"}} for a literal pattern:
\* the pattern occurs in the course name, letter case ignored.
CoincideCurso ==
  [curso \in PatronesCurso |->
     [i \in Ids |-> Contiene(lower(curso), lower(CursoDe(i)))]]

obtener_opiniones_pendientes_categorizacion(col, limit, skip) ==
  SkipLimit(Encontrar(col,
                      [i \in Ids |->
                         col[i].categorizacion.analizado = FALSE]),
            skip, limit)

obtener_opiniones_por_profesor(col, profesor_id, limit, skip) ==
  SkipLimit(Encontrar(col, [i \in Ids |-> ProfesorDe(i) = profesor_id]),
            skip, limit)

obtener_opiniones_por_curso(col, curso, limit, skip) ==
  SkipLimit(Encontrar(col, CoincideCurso[curso]), skip, limit)

\* count_documents(filtro)
Contar(col, filtro) == Len(Encontrar(col, filtro))

contar_opiniones_pendientes_sentimiento(col) ==
  Contar(col, [i \in Ids |-> col[i].sentimiento_general.analizado = FALSE])

contar_opiniones_pendientes_categorizacion(col) ==
  Contar(col, [i \in Ids |-> col[i].categorizacion.analizado = FALSE])

\* update_one({"_id": ...}, {"$set": {"sentimiento_general": {...}}}):
\* the collection afterwards.  resultado "ok" is a completed call,
\* "excepcion" a call that raised inside the try block.
\* Variant: a write that stores no confidence.
ColeccionTrasSentimiento_sin_confianza(col, opinion_id, r, resultado) ==
  IF resultado = "ok" /\ col[opinion_id].existe
  THEN [col EXCEPT ![opinion_id].sentimiento_general =
          [analizado |-> TRUE, clasificacion |-> r.clasificacion,
           pesos |-> r.pesos, confianza |-> 0,
           modelo_version |-> VersionModelo]]
  ELSE col

\* Variant: a write that flips the analysed flag of the sub-record.
ColeccionTrasSentimiento_alterna(col, opinion_id, r, resultado) ==
  IF resultado = "ok" /\ col[opinion_id].existe
  THEN [col EXCEPT ![opinion_id].sentimiento_general =
          [analizado |-> ~ col[opinion_id].sentimiento_general.analizado,
           clasificacion |-> r.clasificacion,
           pesos |-> r.pesos, confianza |-> r.confianza,
           modelo_version |-> VersionModelo]]
  ELSE col

ColeccionTrasSentimiento(col, opinion_id, r, resultado) ==
  IF resultado = "ok" /\ col[opinion_id].existe
  THEN [col EXCEPT ![opinion_id].sentimiento_general =
          [analizado |-> TRUE, clasificacion |-> r.clasificacion,
           pesos |-> r.pesos, confianza |-> r.confianza,
           modelo_version |-> VersionModelo]]
  ELSE col

ColeccionTrasCategorizacion_cruzada(col, opinion_id, r, resultado) ==
  IF resultado = "ok" /\ col[opinion_id].existe
  THEN [col EXCEPT ![opinion_id].categorizacion =
          [analizado |-> TRUE,
           calidad_didactica |-> r.metodo_evaluacion,
           metodo_evaluacion |-> r.calidad_didactica,
           empatia |-> r.empatia,
           modelo_version |-> VersionCategorizador]]
  ELSE col

ColeccionTrasCategorizacion(col, opinion_id, r, resultado) ==
  IF resultado = "ok" /\ col[opinion_id].existe
  THEN [col EXCEPT ![opinion_id].categorizacion =
          [analizado |-> TRUE,
           calidad_didactica |-> r.calidad_didactica,
           metodo_evaluacion |-> r.metodo_evaluacion,
           empatia |-> r.empatia,
           modelo_version |-> VersionCategorizador]]
  ELSE col

\* A return value that ignores modified_count.
Actualizado_siempre(col, opinion_id, resultado) ==
  resultado = "ok"

\* result.modified_count > 0, or False from the except branch.
Actualizado(col, opinion_id, resultado) ==
  resultado = "ok" /\ col[opinion_id].existe

ResultadosEscritura == {"ok", "excepcion"}

(***************************************************************************)
(* State                                                                   *)
(***************************************************************************)
VARIABLES
  fase,       \* scorer call: "entrada" before it, "puntuado" once returned
  texto,      \* scorer call: argument texto
  dimension,  \* scorer call: argument categoria
  locales,    \* scorer call: locals and return value
  coleccion,  \* db.opiniones: document by _id
  pc,         \* procesar_pendientes: position of the coroutine
  args,       \* procesar_pendientes: limit, skip, force
  opiniones,  \* local opiniones: the fetched documents
  resultados_sentimiento,     \* local: list of SentimentResult
  resultados_categorizacion,  \* local: list of CategorizacionResult
  indice,            \* position of the update loop in the zip
  actualizado_sent,  \* local of the loop body
  exitosas, errores, detalles,  \* locals: tallies and per-item details
  retorno,           \* the dict returned by the invocation
  escrituras,        \* the update_one calls issued so far, in order
  entrada,           \* the entry point in use and its scope
  guion,             \* procesar_categorizacion: locals of the script
  invocacion,        \* number of the invocation in progress
  previa             \* what the previous invocation left behind

scorerVars == <<fase, texto, dimension, locales>>

frame == <<args, opiniones, resultados_sentimiento, resultados_categorizacion,
           indice, actualizado_sent, exitosas, errores, detalles, retorno,
           escrituras, entrada, guion, invocacion, previa>>

invocador == <<guion, invocacion, previa>>

vars == <<fase, texto, dimension, locales, coleccion, pc, frame>>

SinLocales ==
  [texto_lower |-> "", positivas_encontradas |-> << >>,
   negativas_encontradas |-> << >>,
   retorno |-> [valoracion |-> "", confianza |-> [num |-> 0, den |-> 1],
                palabras |-> << >>]]

SinArgs == [limit |-> 0, skip |-> 0, force |-> FALSE]

SinRetorno == [pendiente |-> TRUE]

\* entrada: the command line command (if any) with the --limit it was
\* given, and the method called with its scope.
Entrada(comando, limit, metodo, profesor_id, curso) ==
  [comando |-> comando, limit |-> limit, metodo |-> metodo,
   profesor_id |-> profesor_id, curso |-> curso]

SinEntrada == Entrada("", 0, "", 0, "")

SinGuion == [limit |-> 0, to_process |-> 0, processed |-> 0]

SinPrevia == [pendiente |-> TRUE, fallas |-> 0]

\* The coroutine before it is called.
Reposo ==
  /\ pc = "reposo"
  /\ args = SinArgs
  /\ opiniones = << >>
  /\ resultados_sentimiento = << >>
  /\ resultados_categorizacion = << >>
  /\ indice = 0
  /\ actualizado_sent = FALSE
  /\ exitosas = 0
  /\ errores = 0
  /\ detalles = << >>
  /\ retorno = SinRetorno
  /\ escrituras = << >>
  /\ entrada = SinEntrada
  /\ guion = SinGuion
  /\ invocacion = 1
  /\ previa = SinPrevia

(***************************************************************************)
(* Specification of the scorer: one call on a text and a dimension.        *)
(***************************************************************************)
InitScorer ==
  /\ fase = "entrada"
  /\ texto \in TextosEntrada
  /\ dimension \in Rango(Categorias)
  /\ locales = SinLocales
  /\ coleccion = [id \in Ids |-> Documento(id, FALSE)]
  /\ Reposo

\* One call _calcular_score_categoria(texto, dimension).
Puntuar ==
  /\ fase = "entrada"
  /\ fase' = "puntuado"
  /\ locales' = calcular_score_locales(texto, dimension)
  /\ UNCHANGED <<texto, dimension, coleccion, pc, frame>>

NextScorer == Puntuar

SpecScorer == InitScorer /\ [][NextScorer]_vars

(***************************************************************************)
(* OpinionProcessor.procesar_pendientes                                    *)
(***************************************************************************)
textos == [j \in DOMAIN opiniones |-> opiniones[j].comentario]

opinion_ids == [j \in DOMAIN opiniones |-> opiniones[j]._id]

\* Length of zip(opinion_ids, resultados_sentimiento, resultados_categorizacion)
LargoZip ==
  Min(Len(opinion_ids),
      Min(Len(resultados_sentimiento), Len(resultados_categorizacion)))

Init ==
  /\ fase = "entrada"
  /\ texto = ""
  /\ dimension = "calidad_didactica"
  /\ locales = SinLocales
  /\ \E analizadas \in SUBSET Ids :
       coleccion = [id \in Ids |-> Documento(id, id \in analizadas)]
  /\ Reposo

\* Variant: the fetch without the early return on an empty list.
Obtener_sin_retorno_temprano(limit, skip, force) ==
  /\ pc = "reposo"
  /\ LET ops == IF force
                THEN obtener_todas_las_opiniones(coleccion, limit, skip)
                ELSE obtener_opiniones_pendientes_sentimiento(coleccion,
                                                              limit, skip)
     IN /\ args' = [limit |-> limit, skip |-> skip, force |-> force]
        /\ opiniones' = ops
        /\ retorno' = retorno
        /\ pc' = "analizar"
  /\ UNCHANGED <<scorerVars, coleccion, resultados_sentimiento,
                 resultados_categorizacion, indice, actualizado_sent,
                 exitosas, errores, detalles, escrituras, invocador>>

\* Step 1: the call and the fetch, up to the early return on an empty list.
Obtener(limit, skip, force) ==
  /\ pc = "reposo"
  /\ LET ops == IF force
                THEN obtener_todas_las_opiniones(coleccion, limit, skip)
                ELSE obtener_opiniones_pendientes_sentimiento(coleccion,
                                                              limit, skip)
     IN /\ args' = [limit |-> limit, skip |-> skip, force |-> force]
        /\ opiniones' = ops
        /\ IF ops = << >>
           THEN /\ retorno' = [procesadas |-> 0, exitosas |-> 0,
                               errores |-> 0, detalles |-> << >>]
                /\ pc' = "retornado"
           ELSE /\ retorno' = retorno
                /\ pc' = "analizar"
  /\ UNCHANGED <<scorerVars, coleccion, resultados_sentimiento,
                 resultados_categorizacion, indice, actualizado_sent,
                 exitosas, errores, detalles, escrituras, invocador>>

\* Step 3: analizar_batch succeeds.
AnalizarBatch(modelo) ==
  /\ pc = "analizar"
  /\ resultados_sentimiento' = analizar_batch(textos, modelo)
  /\ pc' = "categorizar"
  /\ UNCHANGED <<entrada, invocador, scorerVars, coleccion, args, opiniones,
                 resultados_categorizacion, indice, actualizado_sent,
                 exitosas, errores, detalles, retorno, escrituras>>

\* An except branch that reports no error at all.
AnalizarBatchFalla_sin_contar(lote) ==
  /\ pc = "analizar"
  /\ lote \in 1..NumLotes(Len(textos))
  /\ retorno' = [procesadas |-> 0, exitosas |-> 0, errores |-> 0,
                 mensaje_error |-> [lote |-> lote]]
  /\ pc' = "retornado"
  /\ UNCHANGED <<entrada, invocador, scorerVars, coleccion, args, opiniones,
                 resultados_sentimiento, resultados_categorizacion, indice,
                 actualizado_sent, exitosas, errores, detalles, escrituras>>

\* Step 3: the pipeline call raises while it works on internal batch
\* `lote`; analizar_batch re-raises and procesar_pendientes returns.
AnalizarBatchFalla(lote) ==
  /\ pc = "analizar"
  /\ lote \in 1..NumLotes(Len(textos))
  /\ retorno' = [procesadas |-> 0, exitosas |-> 0,
                 errores |-> Len(opiniones),
                 mensaje_error |-> [lote |-> lote]]
  /\ pc' = "retornado"
  /\ UNCHANGED <<entrada, invocador, scorerVars, coleccion, args, opiniones,
                 resultados_sentimiento, resultados_categorizacion, indice,
                 actualizado_sent, exitosas, errores, detalles, escrituras>>

\* Step 4 and the initialisation of the update loop.
CategorizarBatch ==
  /\ pc = "categorizar"
  /\ resultados_categorizacion' = categorizar_batch(textos)
  /\ exitosas' = 0
  /\ errores' = 0
  /\ detalles' = << >>
  /\ indice' = 1
  /\ pc' = "actualizar_sentimiento"
  /\ UNCHANGED <<entrada, invocador, scorerVars, coleccion, args, opiniones,
                 resultados_sentimiento, actualizado_sent, retorno,
                 escrituras>>

\* Variant: the update replaces the document instead of setting one
\* sub-record, and the comment is lost.
ActualizarSentimiento_reemplaza(resultado) ==
  /\ pc = "actualizar_sentimiento"
  /\ indice <= LargoZip
  /\ LET opinion_id == opinion_ids[indice]
         resultado_sent == resultados_sentimiento[indice]
         col == ColeccionTrasSentimiento(coleccion, opinion_id,
                                         resultado_sent, resultado)
     IN /\ coleccion' = [col EXCEPT ![opinion_id].comentario = ""]
        /\ actualizado_sent' = Actualizado(coleccion, opinion_id, resultado)
        /\ escrituras' = Append(escrituras,
                                [campo |-> "sentimiento_general",
                                 opinion_id |-> opinion_id,
                                 resultado |-> resultado])
  /\ pc' = "actualizar_categorizacion"
  /\ UNCHANGED <<entrada, invocador, scorerVars, args, opiniones,
                 resultados_sentimiento, resultados_categorizacion, indice,
                 exitosas, errores, detalles, retorno>>

\* Loop body, first await: actualizar_sentimiento_general.
ActualizarSentimiento(resultado) ==
  /\ pc = "actualizar_sentimiento"
  /\ indice <= LargoZip
  /\ LET opinion_id == opinion_ids[indice]
         resultado_sent == resultados_sentimiento[indice]
     IN /\ coleccion' = ColeccionTrasSentimiento(coleccion, opinion_id,
                                                 resultado_sent, resultado)
        /\ actualizado_sent' = Actualizado(coleccion, opinion_id, resultado)
        /\ escrituras' = Append(escrituras,
                                [campo |-> "sentimiento_general",
                                 opinion_id |-> opinion_id,
                                 resultado |-> resultado])
  /\ pc' = "actualizar_categorizacion"
  /\ UNCHANGED <<entrada, invocador, scorerVars, args, opiniones,
                 resultados_sentimiento, resultados_categorizacion, indice,
                 exitosas, errores, detalles, retorno>>

\* Loop body, second await: actualizar_categorizacion, the tally, and the
\* return once the zip is exhausted.
ActualizarCategorizacion(resultado) ==
  /\ pc = "actualizar_categorizacion"
  /\ LET opinion_id == opinion_ids[indice]
         resultado_sent == resultados_sentimiento[indice]
         resultado_cat == resultados_categorizacion[indice]
         actualizado_cat == Actualizado(coleccion, opinion_id, resultado)
         exito == actualizado_sent /\ actualizado_cat
         exitosas_n == IF exito THEN exitosas + 1 ELSE exitosas
         errores_n == IF exito THEN errores ELSE errores + 1
         detalles_n ==
           Append(detalles,
                  IF exito
                  THEN [opinion_id |-> opinion_id,
                        clasificacion |-> resultado_sent.clasificacion,
                        confianza |-> resultado_sent.confianza,
                        estado |-> "exitoso"]
                  ELSE [opinion_id |-> opinion_id,
                        estado |-> "error",
                        mensaje |-> "No se pudo actualizar MongoDB"])
     IN /\ coleccion' = ColeccionTrasCategorizacion(coleccion, opinion_id,
                                                    resultado_cat, resultado)
        /\ escrituras' = Append(escrituras,
                                [campo |-> "categorizacion",
                                 opinion_id |-> opinion_id,
                                 resultado |-> resultado])
        /\ exitosas' = exitosas_n
        /\ errores' = errores_n
        /\ detalles' = detalles_n
        /\ indice' = indice + 1
        /\ IF indice + 1 <= LargoZip
           THEN /\ pc' = "actualizar_sentimiento"
                /\ retorno' = retorno
           ELSE /\ pc' = "retornado"
                /\ retorno' = [procesadas |-> Len(opiniones),
                               exitosas |-> exitosas_n,
                               errores |-> errores_n,
                               detalles |-> detalles_n]
  /\ UNCHANGED <<entrada, invocador, scorerVars, args, opiniones,
                 resultados_sentimiento, resultados_categorizacion,
                 actualizado_sent>>

(***************************************************************************)
(* OpinionProcessor.procesar_por_profesor / procesar_por_curso: the two    *)
(* methods have the same body after the fetch.                             *)
(***************************************************************************)

\* The filter applied to the fetched documents: either analysis missing.
opiniones_pendientes(ops) ==
  SelectSeq(ops, LAMBDA op : \/ ~ op.sentimiento_general.analizado
                             \/ ~ op.categorizacion.analizado)

\* The dict returned by the scoped methods: no per-item details.
InformeAlcance(metodo, profesor_id, curso, procesadas, n_exit, n_err) ==
  IF metodo = "procesar_por_profesor"
  THEN [profesor_id |-> profesor_id, procesadas |-> procesadas,
        exitosas |-> n_exit, errores |-> n_err]
  ELSE [curso |-> curso, procesadas |-> procesadas,
        exitosas |-> n_exit, errores |-> n_err]

\* The fetch, the filter and the early return, given the fetched list.
\* The local opiniones_pendientes is kept in the variable opiniones.
ObtenerAlcance(metodo, profesor_id, curso, limit, ops) ==
  /\ pc = "reposo"
  /\ args' = [limit |-> limit, skip |-> 0, force |-> FALSE]
  /\ opiniones' = opiniones_pendientes(ops)
  /\ IF opiniones_pendientes(ops) = << >>
     THEN /\ retorno' = InformeAlcance(metodo, profesor_id, curso, 0, 0, 0)
          /\ pc' = "retornado"
     ELSE /\ retorno' = retorno
          /\ pc' = "analizar_alcance"
  /\ UNCHANGED <<scorerVars, coleccion, resultados_sentimiento,
                 resultados_categorizacion, indice, actualizado_sent,
                 exitosas, errores, detalles, escrituras, invocador>>

ObtenerPorProfesor(profesor_id, limit) ==
  ObtenerAlcance("procesar_por_profesor", profesor_id, "", limit,
                 obtener_opiniones_por_profesor(coleccion, profesor_id,
                                                limit, 0))

ObtenerPorCurso(curso, limit) ==
  ObtenerAlcance("procesar_por_curso", 0, curso, limit,
                 obtener_opiniones_por_curso(coleccion, curso, limit, 0))

\* analizar_batch succeeds.
AnalizarBatchAlcance(modelo) ==
  /\ pc = "analizar_alcance"
  /\ resultados_sentimiento' = analizar_batch(textos, modelo)
  /\ pc' = "categorizar_alcance"
  /\ UNCHANGED <<entrada, invocador, scorerVars, coleccion, args, opiniones,
                 resultados_categorizacion, indice, actualizado_sent,
                 exitosas, errores, detalles, retorno, escrituras>>

\* The pipeline call raises while it works on internal batch `lote`;
\* analizar_batch re-raises, and no handler of the method encloses the
\* call: the exception leaves the method.
AnalizarBatchAlcancePropaga(lote) ==
  /\ pc = "analizar_alcance"
  /\ lote \in 1..NumLotes(Len(textos))
  /\ pc' = "excepcion"
  /\ UNCHANGED <<entrada, invocador, scorerVars, coleccion, args, opiniones,
                 resultados_sentimiento, resultados_categorizacion, indice,
                 actualizado_sent, exitosas, errores, detalles, retorno,
                 escrituras>>

CategorizarBatchAlcance ==
  /\ pc = "categorizar_alcance"
  /\ resultados_categorizacion' = categorizar_batch(textos)
  /\ exitosas' = 0
  /\ errores' = 0
  /\ indice' = 1
  /\ pc' = "actualizar_sentimiento_alcance"
  /\ UNCHANGED <<entrada, invocador, scorerVars, coleccion, args, opiniones,
                 resultados_sentimiento, actualizado_sent, detalles, retorno,
                 escrituras>>

\* Variant: an opinion whose sentiment write modified nothing gets no
\* categorization write, unless it is the last one.
ActualizarSentimientoAlcance_cortocircuito(resultado) ==
  /\ pc = "actualizar_sentimiento_alcance"
  /\ indice <= LargoZip
  /\ LET opinion_id == opinion_ids[indice]
         resultado_sent == resultados_sentimiento[indice]
         actualizado == Actualizado(coleccion, opinion_id, resultado)
         salta == ~ actualizado /\ indice < LargoZip
     IN /\ coleccion' = ColeccionTrasSentimiento(coleccion, opinion_id,
                                                 resultado_sent, resultado)
        /\ actualizado_sent' = actualizado
        /\ escrituras' = Append(escrituras,
                                [campo |-> "sentimiento_general",
                                 opinion_id |-> opinion_id,
                                 resultado |-> resultado])
        /\ indice' = IF salta THEN indice + 1 ELSE indice
        /\ errores' = IF salta THEN errores + 1 ELSE errores
        /\ pc' = IF salta THEN "actualizar_sentimiento_alcance"
                 ELSE "actualizar_categorizacion_alcance"
  /\ UNCHANGED <<entrada, invocador, scorerVars, args, opiniones,
                 resultados_sentimiento, resultados_categorizacion,
                 exitosas, detalles, retorno>>

ActualizarSentimientoAlcance(resultado) ==
  /\ pc = "actualizar_sentimiento_alcance"
  /\ indice <= LargoZip
  /\ LET opinion_id == opinion_ids[indice]
         resultado_sent == resultados_sentimiento[indice]
     IN /\ coleccion' = ColeccionTrasSentimiento(coleccion, opinion_id,
                                                 resultado_sent, resultado)
        /\ actualizado_sent' = Actualizado(coleccion, opinion_id, resultado)
        /\ escrituras' = Append(escrituras,
                                [campo |-> "sentimiento_general",
                                 opinion_id |-> opinion_id,
                                 resultado |-> resultado])
  /\ pc' = "actualizar_categorizacion_alcance"
  /\ UNCHANGED <<entrada, invocador, scorerVars, args, opiniones,
                 resultados_sentimiento, resultados_categorizacion, indice,
                 exitosas, errores, detalles, retorno>>

\* Second await, the tally, and the return once the zip is exhausted.
ActualizarCategorizacionAlcance(resultado) ==
  /\ pc = "actualizar_categorizacion_alcance"
  /\ LET opinion_id == opinion_ids[indice]
         resultado_cat == resultados_categorizacion[indice]
         actualizado_cat == Actualizado(coleccion, opinion_id, resultado)
         exito == actualizado_sent /\ actualizado_cat
         exitosas_n == IF exito THEN exitosas + 1 ELSE exitosas
         errores_n == IF exito THEN errores ELSE errores + 1
     IN /\ coleccion' = ColeccionTrasCategorizacion(coleccion, opinion_id,
                                                    resultado_cat, resultado)
        /\ escrituras' = Append(escrituras,
                                [campo |-> "categorizacion",
                                 opinion_id |-> opinion_id,
                                 resultado |-> resultado])
        /\ exitosas' = exitosas_n
        /\ errores' = errores_n
        /\ indice' = indice + 1
        /\ IF indice + 1 <= LargoZip
           THEN /\ pc' = "actualizar_sentimiento_alcance"
                /\ retorno' = retorno
           ELSE /\ pc' = "retornado"
                /\ retorno' = InformeAlcance(entrada.metodo,
                                             entrada.profesor_id,
                                             entrada.curso, Len(opiniones),
                                             exitosas_n, errores_n)
  /\ UNCHANGED <<entrada, invocador, scorerVars, args, opiniones,
                 resultados_sentimiento, resultados_categorizacion,
                 actualizado_sent, detalles>>

(***************************************************************************)
(* Command line: comando_analizar, comando_profesor, comando_curso         *)
(***************************************************************************)
LimitePorDefecto == 1000

\* args.limit if args.limit > 0 else stats['total_pendientes']
LimiteAnalizar(limit, total_pendientes) ==
  IF limit > 0 THEN limit ELSE total_pendientes

\* args.limit if args.limit > 0 else 1000
LimiteAlcance(limit) == IF limit > 0 THEN limit ELSE LimitePorDefecto

\* The values of --limit tried: the default -1, zero and a positive one.
LimitesCLI == {-1, 0, 1}

\* Everything but pc and entrada stays as it is.
SinCambios ==
  UNCHANGED <<scorerVars, coleccion, args, opiniones, resultados_sentimiento,
              resultados_categorizacion, indice, actualizado_sent, exitosas,
              errores, detalles, retorno, escrituras, invocador>>

ComandoAnalizar(limit, skip) ==
  LET total_pendientes == contar_opiniones_pendientes_sentimiento(coleccion)
  IN /\ entrada' = Entrada("analizar", limit, "procesar_pendientes", 0, "")
     /\ IF total_pendientes = 0
        THEN /\ pc = "reposo"
             /\ pc' = "terminado"
             /\ SinCambios
        ELSE Obtener(LimiteAnalizar(limit, total_pendientes), skip, FALSE)

ComandoProfesor(profesor_id, limit) ==
  /\ entrada' = Entrada("profesor", limit, "procesar_por_profesor",
                        profesor_id, "")
  /\ ObtenerPorProfesor(profesor_id, LimiteAlcance(limit))

ComandoCurso(curso, limit) ==
  /\ entrada' = Entrada("curso", limit, "procesar_por_curso", 0, curso)
  /\ ObtenerPorCurso(curso, LimiteAlcance(limit))

(***************************************************************************)
(* scripts/procesar_categorizacion.py: procesar_categorizacion             *)
(***************************************************************************)

\* The count of pending opinions, to_process and the initial tallies.
GuionInicio(limit) ==
  LET total_pendientes ==
        contar_opiniones_pendientes_categorizacion(coleccion)
  IN /\ pc = "reposo"
     /\ entrada' = Entrada("procesar_categorizacion", limit,
                           "procesar_categorizacion", 0, "")
     /\ IF total_pendientes = 0
        THEN /\ pc' = "terminado"
             /\ guion' = [guion EXCEPT !.limit = limit]
        ELSE /\ pc' = "guion_obtener"
             /\ guion' = [limit |-> limit,
                          to_process |-> IF limit < 0 THEN total_pendientes
                                         ELSE Min(limit, total_pendientes),
                          processed |-> 0]
     /\ exitosas' = 0
     /\ errores' = 0
     /\ UNCHANGED <<scorerVars, coleccion, args, opiniones,
                    resultados_sentimiento, resultados_categorizacion,
                    indice, actualizado_sent, detalles, retorno, escrituras,
                    invocacion, previa>>

\* The loop test, the fetch of the next batch with skip = 0 and its
\* categorization.
GuionObtener ==
  /\ pc = "guion_obtener"
  /\ IF guion.processed < guion.to_process
     THEN LET current_batch_size ==
                Min(batch_size, guion.to_process - guion.processed)
              ops == obtener_opiniones_pendientes_categorizacion(
                       coleccion, current_batch_size, 0)
          IN /\ opiniones' = ops
             /\ IF ops = << >>
                THEN /\ pc' = "terminado"
                     /\ UNCHANGED <<resultados_categorizacion, indice>>
                ELSE /\ resultados_categorizacion' =
                          categorizar_batch(
                            [j \in DOMAIN ops |-> ops[j].comentario])
                     /\ indice' = 1
                     /\ pc' = "guion_actualizar"
     ELSE /\ pc' = "terminado"
          /\ UNCHANGED <<opiniones, resultados_categorizacion, indice>>
  /\ UNCHANGED <<entrada, invocador, scorerVars, coleccion, args,
                 resultados_sentimiento, actualizado_sent, exitosas, errores,
                 detalles, retorno, escrituras>>

\* Variant: the update loop without processed += len(opiniones).
GuionActualizar_sin_avance(resultado) ==
  /\ pc = "guion_actualizar"
  /\ LET opinion_id == opinion_ids[indice]
         actualizado == Actualizado(coleccion, opinion_id, resultado)
     IN /\ coleccion' = ColeccionTrasCategorizacion(
                          coleccion, opinion_id,
                          resultados_categorizacion[indice], resultado)
        /\ escrituras' = Append(escrituras,
                                [campo |-> "categorizacion",
                                 opinion_id |-> opinion_id,
                                 resultado |-> resultado])
        /\ exitosas' = IF actualizado THEN exitosas + 1 ELSE exitosas
        /\ errores' = IF actualizado THEN errores ELSE errores + 1
  /\ indice' = indice + 1
  /\ IF indice + 1 <= Min(Len(opinion_ids), Len(resultados_categorizacion))
     THEN /\ pc' = "guion_actualizar"
          /\ guion' = guion
     ELSE /\ pc' = "guion_obtener"
          /\ guion' = guion
  /\ UNCHANGED <<entrada, invocacion, previa, scorerVars, args, opiniones,
                 resultados_sentimiento, resultados_categorizacion,
                 actualizado_sent, detalles, retorno>>

\* One turn of the update loop; after the last one, processed grows by
\* the number of fetched opinions.
GuionActualizar(resultado) ==
  /\ pc = "guion_actualizar"
  /\ LET opinion_id == opinion_ids[indice]
         actualizado == Actualizado(coleccion, opinion_id, resultado)
     IN /\ coleccion' = ColeccionTrasCategorizacion(
                          coleccion, opinion_id,
                          resultados_categorizacion[indice], resultado)
        /\ escrituras' = Append(escrituras,
                                [campo |-> "categorizacion",
                                 opinion_id |-> opinion_id,
                                 resultado |-> resultado])
        /\ exitosas' = IF actualizado THEN exitosas + 1 ELSE exitosas
        /\ errores' = IF actualizado THEN errores ELSE errores + 1
  /\ indice' = indice + 1
  /\ IF indice + 1 <= Min(Len(opinion_ids), Len(resultados_categorizacion))
     THEN /\ pc' = "guion_actualizar"
          /\ guion' = guion
     ELSE /\ pc' = "guion_obtener"
          /\ guion' = [guion EXCEPT !.processed = @ + Len(opiniones)]
  /\ UNCHANGED <<entrada, invocacion, previa, scorerVars, args, opiniones,
                 resultados_sentimiento, resultados_categorizacion,
                 actualizado_sent, detalles, retorno>>

\* Another client of the store deletes a fetched opinion that the update
\* loop has not reached yet.
Desaparecer(id) ==
  /\ pc \in {"analizar", "categorizar", "actualizar_sentimiento",
             "actualizar_categorizacion", "analizar_alcance",
             "categorizar_alcance", "actualizar_sentimiento_alcance",
             "actualizar_categorizacion_alcance", "guion_actualizar"}
  /\ coleccion[id].existe
  /\ \E j \in DOMAIN opiniones :
       /\ opiniones[j]._id = id
       /\ j >= indice
  /\ coleccion' = [coleccion EXCEPT ![id].existe = FALSE]
  /\ UNCHANGED <<scorerVars, pc, frame>>

\* Direct calls of the three methods of the processor.
ProcesarPendientes(limit, skip, force) ==
  /\ Obtener(limit, skip, force)
  /\ entrada' = Entrada("", 0, "procesar_pendientes", 0, "")

ProcesarPorProfesor(profesor_id, limit) ==
  /\ ObtenerPorProfesor(profesor_id, limit)
  /\ entrada' = Entrada("", 0, "procesar_por_profesor", profesor_id, "")

ProcesarPorCurso(curso, limit) ==
  /\ ObtenerPorCurso(curso, limit)
  /\ entrada' = Entrada("", 0, "procesar_por_curso", 0, curso)

Next ==
  \/ \E limit \in 1..NumOpiniones, skip \in {0, 1}, force \in BOOLEAN :
       ProcesarPendientes(limit, skip, force)
  \/ \E modelo \in Modelos : AnalizarBatch(modelo)
  \/ \E lote \in 1..NumOpiniones : AnalizarBatchFalla(lote)
  \/ \E profesor_id \in Profesores, limit \in 1..NumOpiniones :
       ProcesarPorProfesor(profesor_id, limit)
  \/ \E curso \in PatronesCurso, limit \in 1..NumOpiniones :
       ProcesarPorCurso(curso, limit)
  \/ \E limit \in LimitesCLI, skip \in {0, 1} : ComandoAnalizar(limit, skip)
  \/ \E profesor_id \in Profesores, limit \in LimitesCLI :
       ComandoProfesor(profesor_id, limit)
  \/ \E curso \in PatronesCurso, limit \in LimitesCLI :
       ComandoCurso(curso, limit)
  \/ \E limit \in LimitesCLI \cup {NumOpiniones} : GuionInicio(limit)
  \/ GuionObtener
  \/ \E resultado \in ResultadosEscritura : GuionActualizar(resultado)
  \/ \E modelo \in Modelos : AnalizarBatchAlcance(modelo)
  \/ \E lote \in 1..NumOpiniones : AnalizarBatchAlcancePropaga(lote)
  \/ CategorizarBatchAlcance
  \/ \E resultado \in ResultadosEscritura :
       ActualizarSentimientoAlcance(resultado)
  \/ \E resultado \in ResultadosEscritura :
       ActualizarCategorizacionAlcance(resultado)
  \/ CategorizarBatch
  \/ \E resultado \in ResultadosEscritura : ActualizarSentimiento(resultado)
  \/ \E resultado \in ResultadosEscritura : ActualizarCategorizacion(resultado)
  \/ \E id \in Ids : Desaparecer(id)

Spec == Init /\ [][Next]_vars

(***************************************************************************)
(* Specification of repeated invocations: the caller issues a call of one  *)
(* of the three methods on a store of pending opinions and, once it has    *)
(* ended, issues the same call again.  Nobody else mutates the store, and  *)
(* at most MaxFallas update_one calls raise.                               *)
(***************************************************************************)
MaxInvocaciones == 2

MaxFallas == 1

\* The update_one calls that raised, in this invocation and before.
Fallas ==
  previa.fallas
    + Cardinality({ n \in DOMAIN escrituras :
                      escrituras[n].resultado = "excepcion" })

FallaPermitida(resultado) == resultado = "ok" \/ Fallas < MaxFallas

InitRepetida ==
  /\ fase = "entrada"
  /\ texto = ""
  /\ dimension = "calidad_didactica"
  /\ locales = SinLocales
  /\ coleccion = [id \in Ids |-> Documento(id, FALSE)]
  /\ Reposo

\* What the caller keeps of an invocation that ended.
Resumen ==
  [entrada |-> entrada, args |-> args, excepcion |-> pc = "excepcion",
   fallas |-> Fallas,
   procesadas |-> IF pc = "retornado" THEN retorno.procesadas ELSE 0,
   exitosas |-> IF pc = "retornado" THEN retorno.exitosas ELSE 0,
   errores |-> IF pc = "retornado" THEN retorno.errores ELSE 0]

\* The invocation has ended; the coroutine of the next one is created.
Reinvocar ==
  /\ pc \in {"retornado", "excepcion"}
  /\ invocacion < MaxInvocaciones
  /\ invocacion' = invocacion + 1
  /\ previa' = Resumen
  /\ pc' = "reposo"
  /\ args' = SinArgs
  /\ opiniones' = << >>
  /\ resultados_sentimiento' = << >>
  /\ resultados_categorizacion' = << >>
  /\ indice' = 0
  /\ actualizado_sent' = FALSE
  /\ exitosas' = 0
  /\ errores' = 0
  /\ detalles' = << >>
  /\ retorno' = SinRetorno
  /\ escrituras' = << >>
  /\ entrada' = SinEntrada
  /\ UNCHANGED <<scorerVars, coleccion, guion>>

\* The call being issued is the first one, or the previous one again.
MismaLlamada ==
  \/ invocacion = 1
  \/ /\ entrada' = previa.entrada
     /\ args' = previa.args

\* The caller continues a global run that ended: procesar_pendientes again,
\* skipping as many opinions as the previous call annotated.
ContinuarPorSkip(limit) ==
  /\ invocacion >= 2
  /\ previa.entrada.metodo = "procesar_pendientes"
  /\ ~ previa.args.force
  /\ previa.args.skip = 0
  /\ previa.exitosas >= 1
  /\ ProcesarPendientes(limit, previa.exitosas, FALSE)

NextRepetida ==
  \/ \E limit \in 1..NumOpiniones, skip \in {0, 1}, force \in BOOLEAN :
       ProcesarPendientes(limit, skip, force) /\ MismaLlamada
  \/ \E profesor_id \in Profesores, limit \in 1..NumOpiniones :
       ProcesarPorProfesor(profesor_id, limit) /\ MismaLlamada
  \/ \E curso \in PatronesCurso, limit \in 1..NumOpiniones :
       ProcesarPorCurso(curso, limit) /\ MismaLlamada
  \/ \E limit \in {NumOpiniones} : ContinuarPorSkip(limit)
  \/ \E modelo \in Modelos : AnalizarBatch(modelo)
  \/ \E lote \in 1..NumOpiniones : AnalizarBatchFalla(lote)
  \/ CategorizarBatch
  \/ \E resultado \in ResultadosEscritura :
       FallaPermitida(resultado) /\ ActualizarSentimiento(resultado)
  \/ \E resultado \in ResultadosEscritura :
       FallaPermitida(resultado) /\ ActualizarCategorizacion(resultado)
  \/ \E modelo \in Modelos : AnalizarBatchAlcance(modelo)
  \/ \E lote \in 1..NumOpiniones : AnalizarBatchAlcancePropaga(lote)
  \/ CategorizarBatchAlcance
  \/ \E resultado \in ResultadosEscritura :
       FallaPermitida(resultado) /\ ActualizarSentimientoAlcance(resultado)
  \/ \E resultado \in ResultadosEscritura :
       FallaPermitida(resultado)
         /\ ActualizarCategorizacionAlcance(resultado)
  \/ Reinvocar

SpecRepetida == InitRepetida /\ [][NextRepetida]_vars

(***************************************************************************)
(* The categorization script alone.  Its loop is sequential code: a step   *)
(* that can be taken is eventually taken.                                  *)
(***************************************************************************)
NextGuion ==
  \/ \E limit \in LimitesCLI \cup {2, NumOpiniones} : GuionInicio(limit)
  \/ GuionObtener
  \/ \E resultado \in ResultadosEscritura : GuionActualizar(resultado)
  \/ \E id \in Ids : Desaparecer(id)

SpecGuion ==
  /\ Init
  /\ [][NextGuion]_vars
  /\ WF_vars(GuionObtener)
  /\ WF_vars(\E resultado \in ResultadosEscritura : GuionActualizar(resultado))

(***************************************************************************)
(* Properties of the category scorer (checked under SpecScorer).           *)
(***************************************************************************)

\* Equality of two rationals.
RatEq(a, b) == a.num * b.den = b.num * a.den

Puntuado == fase = "puntuado"
NumPos == Len(locales.positivas_encontradas)
NumNeg == Len(locales.negativas_encontradas)

\* The first five elements of a list, written out element by element.
CincoPrimeras(l) == [k \in 1..Min(5, Len(l)) |-> l[k]]

\* The prefixes of t, by length.
Prefijos(t) == [n \in 0..Len(t) |-> SubSeq(t, 1, n)]

\* p occurs in a text with prefixes pre: some prefix ends with p.
TerminaAlguno(p, pre) ==
  \E n \in DOMAIN pre :
     n >= Len(p) /\ SubSeq(pre[n], n - Len(p) + 1, n) = p

\* p occurs in t.
Aparece(p, t) == TerminaAlguno(p, Prefijos(t))

\* C1: whenever at least one phrase is hit, the verdict is positive with
\* confidence pos/(pos+neg) iff pos/(pos+neg) > 0.6, negative with
\* confidence 1 - pos/(pos+neg) iff pos/(pos+neg) < 0.4, and neutral with
\* confidence 0.5 otherwise.
C1_ScoreClassification ==
  (Puntuado /\ NumPos + NumNeg > 0) =>
    LET r == locales.retorno
        total == NumPos + NumNeg
    IN /\ r.valoracion \in {"positivo", "negativo", "neutral"}
       /\ (r.valoracion = "positivo") <=> (10 * NumPos > 6 * total)
       /\ (r.valoracion = "negativo") <=> (10 * NumPos < 4 * total)
       /\ (r.valoracion = "positivo") =>
             RatEq(r.confianza, [num |-> NumPos, den |-> total])
       /\ (r.valoracion = "negativo") =>
             RatEq(r.confianza, [num |-> total - NumPos, den |-> total])
       /\ (r.valoracion = "neutral") =>
             RatEq(r.confianza, [num |-> 1, den |-> 2])

\* 4 positive and 1 negative hit: positive with confidence 0.8; and a
\* negative verdict with confidence 0.75 (1 positive, 3 negative) exists too.
C1_Witness ==
  /\ Puntuado /\ NumPos = 4 /\ NumNeg = 1
  /\ locales.retorno.valoracion = "positivo"
  /\ RatEq(locales.retorno.confianza, [num |-> 8, den |-> 10])

\* C2: a text that hits no phrase of the dimension gets exactly
\* neutral, 0.5 and an empty keyword list.
C2_ZeroHitsNeutral ==
  (Puntuado /\ NumPos = 0 /\ NumNeg = 0) =>
    /\ locales.retorno.valoracion = "neutral"
    /\ RatEq(locales.retorno.confianza, [num |-> 1, den |-> 2])
    /\ locales.retorno.palabras = << >>

C2_Witness ==
  /\ Puntuado /\ texto # "" /\ NumPos = 0 /\ NumNeg = 0
  /\ locales.retorno.valoracion = "neutral"
  /\ locales.retorno.palabras = << >>

\* C3: 3 positive and 2 negative hits (score exactly 0.6) give neutral with
\* confidence 0.5, not positive.
C3_UpperBoundaryExclusive ==
  (Puntuado /\ NumPos = 3 /\ NumNeg = 2) =>
    /\ locales.retorno.valoracion = "neutral"
    /\ RatEq(locales.retorno.confianza, [num |-> 1, den |-> 2])

C3_Witness ==
  /\ Puntuado /\ NumPos = 3 /\ NumNeg = 2
  /\ locales.retorno.valoracion = "neutral"

\* C4: 2 positive and 3 negative hits (score exactly 0.4) give neutral with
\* confidence 0.5, not negative.
C4_LowerBoundaryExclusive ==
  (Puntuado /\ NumPos = 2 /\ NumNeg = 3) =>
    /\ locales.retorno.valoracion = "neutral"
    /\ RatEq(locales.retorno.confianza, [num |-> 1, den |-> 2])

C4_Witness ==
  /\ Puntuado /\ NumPos = 2 /\ NumNeg = 3
  /\ locales.retorno.valoracion = "neutral"

\* A list without its repeated elements (first occurrences kept).
RECURSIVE Distintas(_)
Distintas(l) ==
  IF l = << >> THEN << >>
  ELSE LET ini == SubSeq(l, 1, Len(l) - 1)
           ult == l[Len(l)]
       IN IF ult \in Rango(ini) THEN Distintas(ini)
          ELSE Distintas(ini) \o <<ult>>

\* C5: pos and neg count DISTINCT phrases: every phrase hit contributes
\* exactly 1, the verdict is the one computed from the distinct hit phrases
\* and the keywords repeat no phrase.
C5_DistinctPhraseCounts ==
  Puntuado =>
    /\ NumPos = Cardinality(Rango(locales.positivas_encontradas))
    /\ NumNeg = Cardinality(Rango(locales.negativas_encontradas))
    /\ locales.retorno = Clasificar(Distintas(locales.positivas_encontradas),
                                    Distintas(locales.negativas_encontradas))
    /\ Len(locales.retorno.palabras)
         = Cardinality(Rango(locales.retorno.palabras))

\* C6: the keywords are the first five positive hits of a positive verdict,
\* the first five negative hits of a negative verdict, and the first five
\* of positive-then-negative hits of a neutral verdict; the hit lists are in
\* lexicon declaration order.
C6_KeywordSelection ==
  Puntuado =>
    LET P == locales.positivas_encontradas
        N == locales.negativas_encontradas
        r == locales.retorno
    IN /\ P = SelectSeq(KEYWORDS[dimension].positivo,
                        LAMBDA w : w \in Rango(P))
       /\ N = SelectSeq(KEYWORDS[dimension].negativo,
                        LAMBDA w : w \in Rango(N))
       /\ (r.valoracion = "positivo") => r.palabras = CincoPrimeras(P)
       /\ (r.valoracion = "negativo") => r.palabras = CincoPrimeras(N)
       /\ (r.valoracion = "neutral") => r.palabras = CincoPrimeras(P \o N)

\* A neutral verdict over 4 positive and 3 negative hits: the keywords are
\* the 4 positive hits followed by the first negative one.
C6_Witness ==
  /\ Puntuado /\ NumPos = 4 /\ NumNeg = 3
  /\ locales.retorno.valoracion = "neutral"
  /\ locales.retorno.palabras
       = locales.positivas_encontradas
           \o <<locales.negativas_encontradas[1]>>

\* C7: the keyword list never has more than 5 elements.
C7_KeywordsAtMostFive ==
  Puntuado => Len(locales.retorno.palabras) <= 5

C7_Witness ==
  /\ Puntuado /\ NumPos + NumNeg > 5
  /\ Len(locales.retorno.palabras) = 5

\* C8: a phrase hits iff it occurs anywhere in the lower-cased text, without
\* word-boundary or negation handling: "... no Explica BIEN" hits the positive
\* phrase "explica bien" next to the negative "no explica" and
\* "no explica bien", and "injusto" hits the positive phrase "justo".
C8_SubstringMatching ==
  Puntuado =>
    LET P == Rango(locales.positivas_encontradas)
        N == Rango(locales.negativas_encontradas)
        lex == KEYWORDS[dimension]
        pre == Prefijos(locales.texto_lower)
    IN /\ \A k \in DOMAIN lex.positivo :
            (lex.positivo[k] \in P) <=> TerminaAlguno(lex.positivo[k], pre)
       /\ \A k \in DOMAIN lex.negativo :
            (lex.negativo[k] \in N) <=> TerminaAlguno(lex.negativo[k], pre)
       /\ (dimension = "calidad_didactica" /\ Aparece("no Explica BIEN", texto))
            => /\ "explica bien" \in P
               /\ {"no explica", "no explica bien"} \subseteq N
               /\ NumPos >= 1
       /\ (dimension = "metodo_evaluacion" /\ Aparece("injusto", texto))
            => "justo" \in P /\ "injusto" \in N

C8_Witness ==
  /\ Puntuado /\ dimension = "calidad_didactica"
  /\ Aparece("no Explica BIEN", texto)
  /\ "explica bien" \in Rango(locales.positivas_encontradas)
  /\ "no explica bien" \in Rango(locales.negativas_encontradas)
  /\ locales.retorno.valoracion = "negativo"

(***************************************************************************)
(* Properties of procesar_pendientes (checked under Spec).                 *)
(***************************************************************************)
Retornado == pc = "retornado"

\* The run met a store in which every update_one call completed and no
\* fetched opinion was deleted.
EscriturasSinFalla ==
  /\ \A n \in DOMAIN escrituras : escrituras[n].resultado = "ok"
  /\ \A j \in DOMAIN opiniones : coleccion[opiniones[j]._id].existe

\* A non-force run fetched the three pending opinions "explica bien y domina
\* el tema", "muy difícil e injusto", "clase normal" and the classifier
\* answered positivo/0.9, negativo/0.85, neutral/0.5.
EscenarioExtremoAExtremo ==
  /\ Retornado
  /\ ~ args.force
  /\ textos = <<"explica bien y domina el tema", "muy difícil e injusto",
                "clase normal">>
  /\ Len(resultados_sentimiento) = 3
  /\ resultados_sentimiento[1].clasificacion = "positivo"
  /\ resultados_sentimiento[1].confianza = 900
  /\ resultados_sentimiento[2].clasificacion = "negativo"
  /\ resultados_sentimiento[2].confianza = 850
  /\ resultados_sentimiento[3].clasificacion = "neutral"
  /\ resultados_sentimiento[3].confianza = 500
  /\ EscriturasSinFalla

\* C9: end to end, the run over the three opinions persists
\* calidad_didactica = positivo for the first, metodo_evaluacion = negativo
\* for the second, calidad_didactica = neutral with no keywords for the
\* third, and reports procesadas = 3, exitosas = 3, errores = 0.
C9_EndToEnd ==
  EscenarioExtremoAExtremo =>
    LET c1 == coleccion[opinion_ids[1]].categorizacion
        c2 == coleccion[opinion_ids[2]].categorizacion
        c3 == coleccion[opinion_ids[3]].categorizacion
    IN /\ c1.analizado /\ c1.calidad_didactica.valoracion = "positivo"
       /\ c2.analizado /\ c2.metodo_evaluacion.valoracion = "negativo"
       /\ c3.analizado /\ c3.calidad_didactica.valoracion = "neutral"
       /\ c3.calidad_didactica.palabras_clave = << >>
       /\ retorno.procesadas = 3
       /\ retorno.exitosas = 3
       /\ retorno.errores = 0

C9_Witness ==
  /\ EscenarioExtremoAExtremo
  /\ retorno.exitosas = 3
  /\ coleccion[1].categorizacion.calidad_didactica.palabras_clave
       = <<"explica bien", "domina el tema">>

\* C10: when the classifier fails on one internal batch of a run that spans
\* several batches, the run is not aborted: every opinion of the other
\* batches still gets its writes and its own entry in the report.
C10_ClassifierBatchIsolation ==
  (/\ Retornado
   /\ "mensaje_error" \in DOMAIN retorno
   /\ NumLotes(Len(opiniones)) > 1) =>
    \A j \in DOMAIN opiniones :
       LoteDe(j) # retorno.mensaje_error.lote =>
         /\ \E n \in DOMAIN escrituras :
               escrituras[n].opinion_id = opiniones[j]._id
         /\ "detalles" \in DOMAIN retorno
         /\ \E n \in DOMAIN retorno.detalles :
               retorno.detalles[n].opinion_id = opiniones[j]._id

(***************************************************************************)
(* Properties of the processor in all its scopes (checked under Spec).     *)
(***************************************************************************)

\* The update_one calls issued for one opinion and one sub-record.
EscriturasDe(opinion_id, campo) ==
  { n \in DOMAIN escrituras : /\ escrituras[n].opinion_id = opinion_id
                              /\ escrituras[n].campo = campo }

\* The annotations of a fetched opinion are still the ones it was fetched
\* with.
SinTocar(j) ==
  LET d == coleccion[opiniones[j]._id]
  IN /\ d.sentimiento_general = opiniones[j].sentimiento_general
     /\ d.categorizacion = opiniones[j].categorizacion

\* procesar_pendientes returned from the except branch of the classifier
\* call.
FallaClasificador == Retornado /\ "mensaje_error" \in DOMAIN retorno

\* C11: when the classifier call fails for the batch of texts handed to it,
\* every item of that batch is counted as failed (errores equals the number
\* of items of the batch, none is counted as succeeded) and no write is
\* made for any of them.
C11_ClassifierFailureFailsWholeBatch ==
  FallaClasificador =>
    /\ retorno.errores = Len(textos)
    /\ retorno.exitosas = 0
    /\ \A j \in DOMAIN opiniones :
         /\ EscriturasDe(opiniones[j]._id, "sentimiento_general") = {}
         /\ EscriturasDe(opiniones[j]._id, "categorizacion") = {}
         /\ SinTocar(j)

C11_Witness ==
  /\ FallaClasificador
  /\ Len(textos) = 3
  /\ retorno.errores = 3
  /\ retorno.mensaje_error.lote = 2

\* C12: in every scope a failure of the classifier call or of a write is
\* recorded in the returned report: no invocation ends with an exception
\* leaving the method.
C12_FailuresRecoveredLocally ==
  pc \in {"retornado", "excepcion"} =>
    /\ pc = "retornado"
    /\ "errores" \in DOMAIN retorno

\* A run of one of the three methods of the processor that went through
\* its whole update loop.
BucleCompleto ==
  /\ Retornado
  /\ entrada.metodo \in {"procesar_pendientes", "procesar_por_profesor",
                         "procesar_por_curso"}
  /\ "mensaje_error" \notin DOMAIN retorno

\* Both sub-writes of the item completed on a document that exists (a
\* document that is gone at the end was gone, at the latest, at the
\* categorization write).
AmbasModificaron(opinion_id) ==
  /\ coleccion[opinion_id].existe
  /\ \A n \in DOMAIN escrituras :
        escrituras[n].opinion_id = opinion_id =>
          escrituras[n].resultado = "ok"

ItemsExitosos == { j \in DOMAIN opiniones : AmbasModificaron(opiniones[j]._id) }

\* C13: every item of a classified batch gets its two writes whatever
\* happened to the other items, and it is counted as succeeded iff both of
\* its own sub-writes modified a document, as failed (once) otherwise.
C13_PerItemPersistenceIsolation ==
  BucleCompleto =>
    /\ \A j \in DOMAIN opiniones :
         /\ Cardinality(EscriturasDe(opiniones[j]._id,
                                     "sentimiento_general")) = 1
         /\ Cardinality(EscriturasDe(opiniones[j]._id,
                                     "categorizacion")) = 1
    /\ retorno.procesadas = Len(opiniones)
    /\ retorno.exitosas = Cardinality(ItemsExitosos)
    /\ retorno.errores = Len(opiniones) - Cardinality(ItemsExitosos)
    /\ "detalles" \in DOMAIN retorno =>
         /\ Len(retorno.detalles) = Len(opiniones)
         /\ \A j \in DOMAIN opiniones :
              /\ retorno.detalles[j].opinion_id = opiniones[j]._id
              /\ retorno.detalles[j].estado = "exitoso" <=>
                   j \in ItemsExitosos

\* An item failed and a later item of the same batch succeeded.
C13_Witness ==
  /\ BucleCompleto
  /\ \E j, k \in DOMAIN opiniones :
       /\ j < k
       /\ j \notin ItemsExitosos
       /\ k \in ItemsExitosos

(***************************************************************************)
(* Properties of repeated invocations (checked under SpecRepetida).        *)
(***************************************************************************)

\* The opinions of the scope of a call, all of them pending in InitRepetida.
AlcanceDe(e) ==
  IF e.metodo = "procesar_por_profesor"
    THEN { i \in Ids : ProfesorDe(i) = e.profesor_id }
    ELSE IF e.metodo = "procesar_por_curso"
      THEN { i \in Ids : CoincideCurso[e.curso][i] }
      ELSE Ids

\* The previous invocation attempted the whole scope and every item of it
\* succeeded.
PreviaExitosaCompleta ==
  /\ invocacion >= 2
  /\ ~ previa.excepcion
  /\ ~ previa.args.force
  /\ previa.errores = 0
  /\ previa.exitosas = Cardinality(AlcanceDe(previa.entrada))

\* C14: idempotence.  When a run over the pending opinions of a scope has
\* succeeded for every one of them and nothing else has mutated the store,
\* the second run over the same scope returns a report with 0 attempted
\* opinions and has issued no write.
C14_SecondRunAttemptsNothing ==
  (PreviaExitosaCompleta /\ pc # "reposo")
    => /\ pc = "retornado"
       /\ retorno.procesadas = 0
       /\ retorno.exitosas = 0
       /\ retorno.errores = 0
       /\ escrituras = << >>

C14_Witness ==
  /\ PreviaExitosaCompleta
  /\ pc = "retornado"
  /\ retorno.procesadas = 0
  /\ Cardinality(AlcanceDe(entrada)) >= 2
  /\ \A i \in AlcanceDe(entrada) :
       /\ coleccion[i].sentimiento_general.analizado
       /\ coleccion[i].categorizacion.analizado

MetodosProcesador ==
  {"procesar_pendientes", "procesar_por_profesor", "procesar_por_curso"}

EnGuion == entrada.metodo = "procesar_categorizacion"

\* C16: for a limit > 0, in every scope, the number of opinions attempted
\* by one invocation never exceeds the limit: the opinions handed to the
\* classifier and the procesadas of the report for the three methods of the
\* processor, the opinions counted and the writes issued for the
\* categorization script.
C16_AttemptedWithinLimit ==
  /\ (entrada.metodo \in MetodosProcesador /\ args.limit > 0)
       => /\ Len(opiniones) <= args.limit
          /\ Len(escrituras) <= 2 * args.limit
          /\ Retornado => retorno.procesadas <= args.limit
  /\ (EnGuion /\ guion.limit > 0)
       => /\ guion.processed <= guion.limit
          /\ Len(escrituras) <= guion.limit

\* A run that attempted exactly limit opinions and left a pending one
\* behind.
C16_Witness ==
  /\ entrada.metodo = "procesar_pendientes"
  /\ Retornado
  /\ ~ args.force
  /\ args.limit = 2
  /\ retorno.procesadas = 2
  /\ \E i \in Ids :
       /\ coleccion[i].existe
       /\ ~ coleccion[i].sentimiento_general.analizado
       /\ \A j \in DOMAIN opiniones : opiniones[j]._id # i

\* The opinions of the scope of the entry point that it regards as pending.
PendienteEnAlcance(i) ==
  /\ coleccion[i].existe
  /\ IF entrada.comando = "analizar"
       THEN ~ coleccion[i].sentimiento_general.analizado
     ELSE IF entrada.comando = "procesar_categorizacion"
       THEN ~ coleccion[i].categorizacion.analizado
     ELSE /\ \/ ~ coleccion[i].sentimiento_general.analizado
             \/ ~ coleccion[i].categorizacion.analizado
          /\ IF entrada.comando = "profesor"
               THEN ProfesorDe(i) = entrada.profesor_id
               ELSE CoincideCurso[entrada.curso][i]

\* The opinions the invocation has attempted.
Intentadas ==
  IF EnGuion
    THEN { escrituras[n].opinion_id : n \in DOMAIN escrituras }
    ELSE { opiniones[j]._id : j \in DOMAIN opiniones }

\* C17: a limit <= 0, zero included, means no limit for the analizar,
\* profesor and curso commands and for the categorization script alike: a
\* run from the first pending opinion, in which no write raises and no
\* opinion is deleted, ends with every pending opinion of its scope
\* attempted.
C17_NonPositiveLimitIsNoLimit ==
  ( /\ entrada.comando # ""
    /\ entrada.limit <= 0
    /\ pc \in {"retornado", "terminado"}
    /\ args.skip = 0
    /\ \A n \in DOMAIN escrituras : escrituras[n].resultado = "ok"
    /\ \A j \in DOMAIN opiniones : coleccion[opiniones[j]._id].existe )
    => \A i \in Ids : PendienteEnAlcance(i) => i \in Intentadas

\* C18: no automatic retries.  Within one invocation no opinion is
\* attempted more than once, even when its write fails: each sub-record of
\* an opinion receives at most one update_one call.
C18_NoRetryWithinInvocation ==
  \A n, m \in DOMAIN escrituras :
    (escrituras[n].opinion_id = escrituras[m].opinion_id
       /\ escrituras[n].campo = escrituras[m].campo) => n = m

\* C19: every report, of every scope and on every outcome path, carries an
\* ordered per-item sequence with exactly one entry per attempted opinion,
\* in fetch order.
C19_ReportListsEveryAttemptedItem ==
  (Retornado /\ opiniones # << >>)
    => /\ "detalles" \in DOMAIN retorno
       /\ Len(retorno.detalles) = Len(opiniones)
       /\ \A j \in DOMAIN opiniones :
            retorno.detalles[j].opinion_id = opiniones[j]._id

MetodosAlcance == {"procesar_por_profesor", "procesar_por_curso"}

\* The opinions of the scope of the call that were pending when they were
\* fetched; no write has been issued since.
PendientesAlObtener ==
  { i \in Ids :
      /\ IF entrada.metodo = "procesar_por_profesor"
           THEN ProfesorDe(i) = entrada.profesor_id
           ELSE CoincideCurso[entrada.curso][i]
      /\ \/ coleccion[i].existe
         \/ \E j \in DOMAIN opiniones : opiniones[j]._id = i
      /\ \/ ~ coleccion[i].sentimiento_general.analizado
         \/ ~ coleccion[i].categorizacion.analizado }

\* C20: a by-professor or by-course invocation with limit L > 0 attempts
\* min(L, P) opinions, P being the number of pending opinions of the scope;
\* it attempts none only when the scope has no pending opinion.
C20_ScopedAttemptsMinLimitPending ==
  ( /\ entrada.metodo \in MetodosAlcance
    /\ args.limit > 0
    /\ pc \in {"analizar_alcance", "retornado"}
    /\ escrituras = << >> )
    => /\ Len(opiniones) = Min(args.limit, Cardinality(PendientesAlObtener))
       /\ Retornado => retorno.procesadas = Len(opiniones)

(***************************************************************************)
(* Properties of what an invocation overwrites, fetches and reports.       *)
(***************************************************************************)

\* The analysed flag that fetched opinion j carried for sub-record campo.
AnalizadoAlObtener(j, campo) ==
  IF campo = "sentimiento_general"
    THEN opiniones[j].sentimiento_general.analizado
    ELSE opiniones[j].categorizacion.analizado

\* C21: a non-force invocation, in any scope, never overwrites a
\* sub-record whose analysed flag was already TRUE when the opinion was
\* fetched.
C21_NoOverwriteOfAnalyzedSubRecord ==
  ~ args.force =>
    \A n \in DOMAIN escrituras :
      \A j \in DOMAIN opiniones :
        (opiniones[j]._id = escrituras[n].opinion_id
           /\ escrituras[n].resultado = "ok")
          => ~ AnalizadoAlObtener(j, escrituras[n].campo)

\* The previous call was a global run from the first pending opinion that
\* annotated every opinion it attempted, and the present call continues it
\* with skip set to the number annotated and a limit that covers the rest.
ContinuacionPorSkip ==
  /\ invocacion >= 2
  /\ previa.entrada.metodo = "procesar_pendientes"
  /\ ~ previa.args.force
  /\ previa.args.skip = 0
  /\ ~ previa.excepcion
  /\ previa.errores = 0
  /\ previa.exitosas >= 1
  /\ previa.exitosas = previa.procesadas
  /\ entrada.metodo = "procesar_pendientes"
  /\ ~ args.force
  /\ args.skip = previa.exitosas
  /\ args.limit >= NumOpiniones

\* C22: continuation by skip.  When a global run has annotated the first k
\* pending opinions and procesar_pendientes is called again with skip = k
\* and a sufficient limit, and the second call ends with no classifier
\* failure and no failed write, no opinion of the original pending set is
\* left unprocessed.
C22_ContinuationBySkip ==
  ( /\ ContinuacionPorSkip
    /\ Retornado
    /\ ~ FallaClasificador
    /\ \A n \in DOMAIN escrituras : escrituras[n].resultado = "ok" )
    => \A i \in Ids : coleccion[i].sentimiento_general.analizado

\* C23: no single fetch, and no single pass through classification, covers
\* more than batch_size opinions: the fetched list handed to the
\* classifier or the scorer never has more than batch_size elements.
C23_FetchWithinBatchSize ==
  /\ Len(opiniones) <= batch_size
  /\ Len(resultados_sentimiento) <= batch_size
  /\ Len(resultados_categorizacion) <= batch_size

ObtenidoVacio ==
  /\ entrada.metodo \in MetodosProcesador
  /\ pc \notin {"reposo", "terminado"}
  /\ opiniones = << >>

\* C25: when a fetch returns no items the invocation stops.  It returns a
\* report with procesadas = 0, exitosas = 0, errores = 0 and no per-item
\* entries, without calling the classifier or the scorer and without
\* writing to the store; the categorization script never enters its update
\* loop with an empty fetch.
C25_EmptyFetchStops ==
  /\ ObtenidoVacio =>
       /\ Retornado
       /\ retorno.procesadas = 0
       /\ retorno.exitosas = 0
       /\ retorno.errores = 0
       /\ "detalles" \in DOMAIN retorno => retorno.detalles = << >>
       /\ "mensaje_error" \notin DOMAIN retorno
       /\ resultados_sentimiento = << >>
       /\ resultados_categorizacion = << >>
       /\ escrituras = << >>
  /\ (EnGuion /\ opiniones = << >>) => pc \in {"guion_obtener", "terminado"}

\* A global run that found nothing to process although the store holds
\* opinions, all of them analysed.
C25_Witness ==
  /\ ObtenidoVacio
  /\ Retornado
  /\ entrada.metodo = "procesar_pendientes"
  /\ ~ args.force
  /\ args.skip = 0
  /\ "detalles" \in DOMAIN retorno
  /\ \A i \in Ids :
       coleccion[i].existe /\ coleccion[i].sentimiento_general.analizado

\* C26: in every report returned by any entry point, on every outcome
\* path, procesadas = exitosas + errores.
C26_CountsAddUp ==
  Retornado => retorno.procesadas = retorno.exitosas + retorno.errores

\* The fetched opinions whose stored document carries both analysed flags.
ConAmbasBanderas ==
  { j \in DOMAIN opiniones :
      /\ coleccion[opiniones[j]._id].sentimiento_general.analizado
      /\ coleccion[opiniones[j]._id].categorizacion.analizado }

\* C27: an item reported as succeeded has, at the end of the invocation,
\* both analysed flags TRUE in the store, and the stored sentiment label
\* and confidence are those of its report entry; a scoped report, which
\* has counts only, reports no more successes than there are fetched
\* opinions stored with both flags.
C27_SucceededItemsAreStored ==
  Retornado =>
    /\ "detalles" \in DOMAIN retorno =>
         \A n \in DOMAIN retorno.detalles :
           retorno.detalles[n].estado = "exitoso" =>
             LET d == coleccion[retorno.detalles[n].opinion_id]
             IN /\ d.sentimiento_general.analizado
                /\ d.categorizacion.analizado
                /\ d.sentimiento_general.clasificacion
                     = retorno.detalles[n].clasificacion
                /\ d.sentimiento_general.confianza
                     = retorno.detalles[n].confianza
    /\ entrada.metodo \in MetodosAlcance =>
         retorno.exitosas <= Cardinality(ConAmbasBanderas)

\* A global run that reported one success and one failure.
C27_Witness ==
  /\ Retornado
  /\ entrada.metodo = "procesar_pendientes"
  /\ ~ args.force
  /\ "detalles" \in DOMAIN retorno
  /\ Len(retorno.detalles) = 2
  /\ retorno.detalles[1].estado = "error"
  /\ retorno.detalles[2].estado = "exitoso"
  /\ coleccion[retorno.detalles[2].opinion_id].sentimiento_general.confianza
       = retorno.detalles[2].confianza
  /\ retorno.detalles[2].confianza > 0

(***************************************************************************)
(* Properties of the categorization script (checked under SpecGuion).      *)
(***************************************************************************)

C29_StageOrdering ==
  entrada.metodo \in MetodosProcesador =>
    /\ escrituras # << >> =>
         /\ Len(resultados_sentimiento) = Len(opiniones)
         /\ Len(resultados_categorizacion) = Len(opiniones)
    /\ \A n \in DOMAIN escrituras :
         /\ escrituras[n].opinion_id = opiniones[(n + 1) \div 2]._id
         /\ escrituras[n].campo =
              IF n % 2 = 1 THEN "sentimiento_general" ELSE "categorizacion"
    /\ Len(escrituras) % 2 = 1
         <=> pc \in {"actualizar_categorizacion",
                     "actualizar_categorizacion_alcance"}
    /\ (Retornado /\ ~ FallaClasificador)
         => Len(escrituras) = 2 * Len(opiniones)

\* A scoped run in which the sentiment write of the first of two opinions
\* raised and its categorization write was issued all the same.
C29_Witness ==
  /\ Retornado
  /\ entrada.metodo \in MetodosAlcance
  /\ Len(opiniones) = 2
  /\ Len(escrituras) = 4
  /\ escrituras[1].resultado = "excepcion"
  /\ escrituras[2].resultado = "ok"
  /\ escrituras[2].opinion_id = escrituras[1].opinion_id
  /\ coleccion[escrituras[2].opinion_id].categorizacion.analizado
  /\ ~ coleccion[escrituras[1].opinion_id].sentimiento_general.analizado

(***************************************************************************)
(* Range of the scorer's confidence (checked under SpecScorer).            *)
(***************************************************************************)

\* C30: for every text and dimension the confidence of the verdict lies in
\* {0.5} \cup (0.6, 1]: it is exactly 0.5 iff the valuation is neutral,
\* strictly greater than 0.6 iff the valuation is positive or negative, and
\* never below 0.5.
C30_ConfidenceRange ==
  Puntuado =>
    LET r == locales.retorno
        c == r.confianza
    IN /\ c.den > 0
       /\ 2 * c.num >= c.den
       /\ c.num <= c.den
       /\ (r.valoracion = "neutral") <=> (2 * c.num = c.den)
       /\ (r.valoracion \in {"positivo", "negativo"})
            <=> (10 * c.num > 6 * c.den)

\* One positive and two negative hits: negative with confidence 2/3.
C30_Witness ==
  /\ Puntuado
  /\ NumPos = 1
  /\ NumNeg = 2
  /\ locales.retorno.valoracion = "negativo"
  /\ RatEq(locales.retorno.confianza, [num |-> 2, den |-> 3])

====
